---- MODULE Spec2Model ----
(***************************************************************************)
(* urshort: a URL shortener.  The configuration loader turns environment   *)
(* variables into a table of standard (exact-match) URIs and an ordered    *)
(* list of (regex, template) pattern rules; the resolver answers lookups   *)
(* against that table; the router maps the answer to an HTTP response.     *)
(*                                                                         *)
(* Strings are TLA+ strings (TLC evaluates Len, \o and SubSeq on them).    *)
(* Result values are records [ok, val]: Ok(v) / Err(e) as in Rust.         *)
(*                                                                         *)
(* External crates are modelled on the fragment the inputs below use:      *)
(*   regex  : ^? literal* ([0-9]+)? $?   (leftmost match, greedy group);   *)
(*            a source with a metacharacter outside that shape is a        *)
(*            compile error (an unclosed "(" or a dangling "*" is one in   *)
(*            the crate too);                                              *)
(*   http   : Uri::from_str accepts path-form ("/..."), authority-form     *)
(*            ("host") and absolute-form ("scheme://host...") strings of   *)
(*            URI characters, and rejects the empty string, a space, and   *)
(*            "host/path" without a scheme.                                *)
(***************************************************************************)
EXTENDS Integers, Sequences, FiniteSets, TLC

VARIABLES env_vars, pc, standard, pattern, port_number, port, call, response, tasks

vars == <<env_vars, pc, standard, pattern, port_number, port, call, response, tasks>>

(***************************************************************************)
(* Program constants (src/src/main.rs).                                    *)
(***************************************************************************)
STANDARD_URI_ENV_NAME == "URSHORT_STANDARD_URI_"
PATTERN_URI_ENV_NAME == "URSHORT_PATTERN_URI_"
PATTERN_REGEX_ENV_NAME == "URSHORT_PATTERN_REGEX_"
PORT_ENV_NAME == "URSHORT_PORT"
DEFAULT_PORT == 3000

(***************************************************************************)
(* Bounds of the model.                                                    *)
(***************************************************************************)
MaxRules == 3
MaxStandardVars == 3
MaxPatternVars == 4
MaxMainVars == 3
MaxConcurrentRules == 2
MaxPortVars == 4

(***************************************************************************)
(* Rust's Result and Option.                                               *)
(***************************************************************************)
Ok(v) == [ok |-> TRUE, val |-> v]
Err(e) == [ok |-> FALSE, val |-> e]
None == [some |-> FALSE, val |-> 0]
Some(v) == [some |-> TRUE, val |-> v]

(***************************************************************************)
(* str helpers.                                                            *)
(***************************************************************************)
CharAt(s, i) == SubSeq(s, i, i)

starts_with(x, prefix) ==
    /\ Len(x) >= Len(prefix)
    /\ SubSeq(x, 1, Len(prefix)) = prefix

\* substring crate: the characters at 0-based positions start .. end-1.
substring(x, start, end) == SubSeq(x, start + 1, end)

\* x[n..]
slice_from(x, n) == SubSeq(x, n + 1, Len(x))

Min(S) == CHOOSE m \in S : \A n \in S : m <= n

Digits == {"0", "1", "2", "3", "4", "5", "6", "7", "8", "9"}

DigitVal(c) ==
    CASE c = "0" -> 0 [] c = "1" -> 1 [] c = "2" -> 2 [] c = "3" -> 3
      [] c = "4" -> 4 [] c = "5" -> 5 [] c = "6" -> 6 [] c = "7" -> 7
      [] c = "8" -> 8 [] c = "9" -> 9

AllDigits(s) == \A i \in 1..Len(s) : CharAt(s, i) \in Digits

RECURSIVE DigitsValue(_, _)
DigitsValue(s, acc) ==
    IF s = "" THEN acc
    ELSE DigitsValue(slice_from(s, 1), acc * 10 + DigitVal(CharAt(s, 1)))

\* str::parse::<usize>(): an optional "+", then one or more decimal digits.
parse_usize(s) ==
    LET body == IF starts_with(s, "+") THEN slice_from(s, 1) ELSE s
    IN  IF body # "" /\ AllDigits(body)
        THEN Ok(DigitsValue(body, 0))
        ELSE Err("ParseIntError")

\* str::parse::<u16>(): as parse_usize, and the value fits 16 bits.
parse_u16(s) ==
    LET r == parse_usize(s)
    IN  IF r.ok /\ r.val <= 65535 THEN r ELSE Err("ParseIntError")

(***************************************************************************)
(* regex crate, on the fragment  ^? literal* ([0-9]+)? $?  .               *)
(* A compiled Regex is represented by its source (Regex::to_string).       *)
(***************************************************************************)
RegexMeta == {"(", ")", "[", "]", "{", "}", "*", "+", "?", "|", "\\", "^", "$", "."}

DigitGroup == "([0-9]+)"

regex_anchored_start(re) == starts_with(re, "^")

regex_anchored_end(re) == Len(re) > 0 /\ CharAt(re, Len(re)) = "$"

\* The source without its anchors.
regex_core(re) ==
    SubSeq(re,
           IF regex_anchored_start(re) THEN 2 ELSE 1,
           IF regex_anchored_end(re) THEN Len(re) - 1 ELSE Len(re))

regex_has_group(re) ==
    LET core == regex_core(re)
    IN  /\ Len(core) >= Len(DigitGroup)
        /\ slice_from(core, Len(core) - Len(DigitGroup)) = DigitGroup

regex_literal(re) ==
    LET core == regex_core(re)
    IN  IF regex_has_group(re)
        THEN SubSeq(core, 1, Len(core) - Len(DigitGroup))
        ELSE core

\* Regex::from_str / Regex::new: the compiled regex, or a syntax error.
Regex_from_str(y) ==
    IF \A i \in 1..Len(regex_literal(y)) : CharAt(regex_literal(y), i) \notin RegexMeta
    THEN Ok(y)
    ELSE Err("regex parse error")

\* The longest run of digits of text that starts after offset from.
DigitRun(text, from) ==
    CHOOSE n \in 0..(Len(text) - from) :
        /\ AllDigits(SubSeq(text, from + 1, from + n))
        /\ \A m \in (n + 1)..(Len(text) - from) :
               ~AllDigits(SubSeq(text, from + 1, from + m))

\* The end offset of the match of re that starts at offset s, or -1.
MatchAt(re, text, s) ==
    LET lit == regex_literal(re)
        e1 == s + Len(lit)
    IN  IF e1 > Len(text) \/ SubSeq(text, s + 1, e1) # lit THEN -1
        ELSE LET run == IF regex_has_group(re) THEN DigitRun(text, e1) ELSE 0
                 e == e1 + run
             IN  IF \/ regex_has_group(re) /\ run = 0
                    \/ regex_anchored_end(re) /\ e # Len(text)
                 THEN -1
                 ELSE e

\* Regex::find / captures: the leftmost match, with the text of group 1.
regex_find(re, text) ==
    LET starts == {s \in 0..Len(text) :
                      /\ regex_anchored_start(re) => s = 0
                      /\ MatchAt(re, text, s) >= 0}
    IN  IF starts = {} THEN None
        ELSE LET s == Min(starts)
                 e == MatchAt(re, text, s)
             IN  Some([start |-> s, end |-> e,
                       whole |-> SubSeq(text, s + 1, e),
                       group |-> IF regex_has_group(re)
                                 THEN SubSeq(text, s + Len(regex_literal(re)) + 1, e)
                                 ELSE ""])

\* Regex::is_match
is_match(re, text) == regex_find(re, text).some

\* Characters of a capture-group reference name in a replacement string.
NameChars ==
    Digits \cup {"_"} \cup
    {"a", "b", "c", "d", "e", "f", "g", "h", "i", "j", "k", "l", "m",
     "n", "o", "p", "q", "r", "s", "t", "u", "v", "w", "x", "y", "z"} \cup
    {"A", "B", "C", "D", "E", "F", "G", "H", "I", "J", "K", "L", "M",
     "N", "O", "P", "Q", "R", "S", "T", "U", "V", "W", "X", "Y", "Z"}

\* The longest prefix of s made of NameChars.
NamePrefix(s) ==
    LET n == CHOOSE n \in 0..Len(s) :
                 /\ \A i \in 1..n : CharAt(s, i) \in NameChars
                 /\ n < Len(s) => CharAt(s, n + 1) \notin NameChars
    IN  SubSeq(s, 1, n)

\* The text a reference $name stands for: group 0 is the whole match, group 1
\* the digit group, and a group the regex does not have is the empty string.
group_text(name, m) ==
    IF name = "0" THEN m.whole
    ELSE IF name = "1" THEN m.group
    ELSE ""

\* Captures::expand: the replacement string with its $name references
\* substituted ("$$" is a literal "$").
RECURSIVE expand(_, _)
expand(rep, m) ==
    IF rep = "" THEN ""
    ELSE IF CharAt(rep, 1) # "$" THEN CharAt(rep, 1) \o expand(slice_from(rep, 1), m)
    ELSE IF starts_with(rep, "$$") THEN "$" \o expand(slice_from(rep, 2), m)
    ELSE LET name == NamePrefix(slice_from(rep, 1))
         IN  IF name = "" THEN "$" \o expand(slice_from(rep, 1), m)
             ELSE group_text(name, m) \o expand(slice_from(rep, 1 + Len(name)), m)

\* Regex::replace: the text with its leftmost match replaced by the expanded
\* replacement; the text itself when there is no match.
regex_replace(re, text, rep) ==
    LET f == regex_find(re, text)
    IN  IF ~f.some THEN text
        ELSE SubSeq(text, 1, f.val.start) \o expand(rep, f.val)
                 \o slice_from(text, f.val.end)

(***************************************************************************)
(* http crate: Uri::from_str.  A Uri is represented by the string it was   *)
(* parsed from.                                                            *)
(***************************************************************************)
UriChars ==
    NameChars \cup {"-", ".", "~", ":", "/", "?", "#", "@", "!", "$", "&",
                    "'", "(", ")", "*", "+", ",", ";", "=", "%"}

SchemeSeparator == "://"

Uri_from_str(s) ==
    IF s = "" THEN Err("InvalidUri")
    ELSE IF \E i \in 1..Len(s) : CharAt(s, i) \notin UriChars THEN Err("InvalidUri")
    ELSE IF CharAt(s, 1) = "/" \/ s = "*" THEN Ok(s)
    ELSE LET seps == {i \in 1..(Len(s) - 2) : SubSeq(s, i, i + 2) = SchemeSeparator}
         IN  IF seps # {}
             THEN LET i == Min(seps)
                      scheme == SubSeq(s, 1, i - 1)
                      rest == slice_from(s, i + 2)
                  IN  IF /\ scheme # ""
                         /\ \A j \in 1..Len(scheme) : CharAt(scheme, j) \in NameChars
                         /\ rest # ""
                         /\ CharAt(rest, 1) \notin {"/", "?", "#"}
                      THEN Ok(s)
                      ELSE Err("InvalidUri")
             ELSE IF \E i \in 1..Len(s) : CharAt(s, i) \in {"/", "?", "#"}
                  THEN Err("InvalidUri")
                  ELSE Ok(s)

(***************************************************************************)
(* UriMappings (src/src/uri_mappings.rs): standard is the HashMap, a       *)
(* function from lookup keys to URIs; pattern is the Vec of                *)
(* <<regex, uri_pattern>> pairs.                                           *)
(***************************************************************************)
NoStandardFound == "No standard found"
PatternDidNotCreateUri == "Pattern did not create URI"
NoPatternFound == "No pattern found"

match_standard(std, parameter) ==
    IF parameter \in DOMAIN std THEN Ok(std[parameter]) ELSE Err(NoStandardFound)

\* Mutant: a matching rule whose replacement is no URI is skipped, and the
\* loop goes on to the next rule.
RECURSIVE match_pattern_fall_through(_, _, _)
match_pattern_fall_through(pat, i, parameter) ==
    IF i > Len(pat) THEN Err(NoPatternFound)
    ELSE IF ~is_match(pat[i][1], parameter)
         THEN match_pattern_fall_through(pat, i + 1, parameter)
         ELSE LET replacement == regex_replace(pat[i][1], parameter, pat[i][2])
                  new_uri == Uri_from_str(replacement)
              IN  IF new_uri.ok THEN Ok(new_uri.val)
                  ELSE match_pattern_fall_through(pat, i + 1, parameter)

\* Mutant: the rules are tried from the last to the first.
RECURSIVE match_pattern_reversed(_, _, _)
match_pattern_reversed(pat, i, parameter) ==
    LET j == Len(pat) + 1 - i
    IN  IF i > Len(pat) THEN Err(NoPatternFound)
        ELSE IF ~is_match(pat[j][1], parameter)
             THEN match_pattern_reversed(pat, i + 1, parameter)
             ELSE LET replacement == regex_replace(pat[j][1], parameter, pat[j][2])
                      new_uri == Uri_from_str(replacement)
                  IN  IF new_uri.ok THEN Ok(new_uri.val)
                      ELSE Err(PatternDidNotCreateUri)

\* Mutant: a replacement that is no URI is reported as "no pattern found".
RECURSIVE match_pattern_one_error(_, _, _)
match_pattern_one_error(pat, i, parameter) ==
    IF i > Len(pat) THEN Err(NoPatternFound)
    ELSE IF ~is_match(pat[i][1], parameter)
         THEN match_pattern_one_error(pat, i + 1, parameter)
         ELSE LET replacement == regex_replace(pat[i][1], parameter, pat[i][2])
                  new_uri == Uri_from_str(replacement)
              IN  IF new_uri.ok THEN Ok(new_uri.val)
                  ELSE Err(NoPatternFound)

\* The loop of match_pattern from rule i on: the first rule whose regex
\* matches decides, with its replacement parsed as a URI.
RECURSIVE match_pattern_from(_, _, _)
match_pattern_from(pat, i, parameter) ==
    IF i > Len(pat) THEN Err(NoPatternFound)
    ELSE IF ~is_match(pat[i][1], parameter)
         THEN match_pattern_from(pat, i + 1, parameter)
         ELSE LET replacement == regex_replace(pat[i][1], parameter, pat[i][2])
                  new_uri == Uri_from_str(replacement)
              IN  IF new_uri.ok THEN Ok(new_uri.val)
                  ELSE Err(PatternDidNotCreateUri)

match_pattern(pat, parameter) == match_pattern_from(pat, 1, parameter)

\* Mutant: the patterns are tried before the standard URIs.
match_anything_pattern_first(std, pat, parameter) ==
    LET p == match_pattern(pat, parameter)
    IN  IF p.ok THEN p
        ELSE IF match_standard(std, parameter).ok
             THEN match_standard(std, parameter)
             ELSE p

match_anything(std, pat, parameter) ==
    LET s == match_standard(std, parameter)
    IN  IF s.ok THEN Ok(s.val) ELSE match_pattern(pat, parameter)

(***************************************************************************)
(* The configuration loader (src/src/environment.rs).  env is the iterator *)
(* of (key, value) pairs, a sequence of <<key, value>>; every OsString of  *)
(* the model is valid UTF-8, so into_string() succeeds.                    *)
(***************************************************************************)
\* Mutant: the last pair that qualifies is taken, as a map would.
RECURSIVE extract_port_number_last(_, _)
extract_port_number_last(env, env_var_prefix) ==
    IF env = <<>> THEN None
    ELSE IF extract_port_number_last(Tail(env), env_var_prefix).some
         THEN extract_port_number_last(Tail(env), env_var_prefix)
         ELSE IF Head(env)[1] = env_var_prefix /\ parse_u16(Head(env)[2]).ok
              THEN Some(parse_u16(Head(env)[2]).val)
              ELSE None

\* find_map: the first pair whose key is the variable's name and whose value
\* parses as a u16.
RECURSIVE extract_port_number(_, _)
extract_port_number(env, env_var_prefix) ==
    IF env = <<>> THEN None
    ELSE IF Head(env)[1] = env_var_prefix /\ parse_u16(Head(env)[2]).ok
         THEN Some(parse_u16(Head(env)[2]).val)
         ELSE extract_port_number(Tail(env), env_var_prefix)

\* Mutant: an entry already in the map is kept (first write wins).
HashMap_insert_keep_first(m, k, v) ==
    [x \in DOMAIN m \cup {k} |-> IF x \in DOMAIN m THEN m[x] ELSE v]

\* HashMap::insert, as collect() applies it to each (key, value) in turn.
HashMap_insert(m, k, v) ==
    [x \in DOMAIN m \cup {k} |-> IF x = k THEN v ELSE m[x]]

\* Mutant: the entry is stored under the whole variable name.
standard_entry_key_unstripped(x, env_var_prefix) == x

\* The lookup key of a standard variable: its name without the prefix.
standard_entry_key(x, env_var_prefix) == substring(x, Len(env_var_prefix), Len(x))

\* Mutant: the value is stored without being parsed as a URI.
standard_entry_unchecked(x, y, env_var_prefix) == starts_with(x, env_var_prefix)

\* The filter_map closure of extract_standard_uris: whether the pair (x, y)
\* yields an entry.
standard_entry_accepted(x, y, env_var_prefix) ==
    starts_with(x, env_var_prefix) /\ Uri_from_str(y).ok

\* The map collected from the first n pairs of env.
RECURSIVE standard_collect(_, _, _)
standard_collect(env, env_var_prefix, n) ==
    IF n = 0 THEN <<>>
    ELSE LET m == standard_collect(env, env_var_prefix, n - 1)
             x == env[n][1]
             y == env[n][2]
         IN  IF standard_entry_accepted(x, y, env_var_prefix)
             THEN HashMap_insert(m, standard_entry_key(x, env_var_prefix), y)
             ELSE m

extract_standard_uris(env, env_var_prefix) ==
    standard_collect(env, env_var_prefix, Len(env))

\* A panic of the loader (an index out of bounds); val keeps the type of Ok's.
Panicked == [ok |-> FALSE, val |-> <<>>]

\* Mutant: a write past the end of the list is skipped instead of panicking.
RECURSIVE fold_assign_checked(_, _, _)
fold_assign_checked(list, items, i) ==
    IF i > Len(items) THEN Ok(list)
    ELSE IF items[i][1] >= Len(list) THEN fold_assign_checked(list, items, i + 1)
    ELSE fold_assign_checked([list EXCEPT ![items[i][1] + 1] = items[i][2]],
                             items, i + 1)

\* Mutant: each item is written to the next free slot, in arrival order.
RECURSIVE fold_assign_arrival(_, _, _)
fold_assign_arrival(list, items, i) ==
    IF i > Len(items) THEN Ok(list)
    ELSE fold_assign_arrival([list EXCEPT ![i] = items[i][2]], items, i + 1)

\* The fold of extract_pattern_uris from item i on: list[x] = y for each
\* (x, y), which panics when x is not an index of list.
RECURSIVE fold_assign(_, _, _)
fold_assign(list, items, i) ==
    IF i > Len(items) THEN Ok(list)
    ELSE IF items[i][1] >= Len(list) THEN Panicked
    ELSE fold_assign([list EXCEPT ![items[i][1] + 1] = items[i][2]], items, i + 1)

\* The filter_map of the uri list: (index, value) of the pairs whose name,
\* without the prefix, parses as a usize.
uri_items(uri_list, env_var_uri_prefix) ==
    LET kept == SelectSeq(uri_list,
                    LAMBDA p : parse_usize(slice_from(p[1], Len(env_var_uri_prefix))).ok)
    IN  [i \in 1..Len(kept) |->
            <<parse_usize(slice_from(kept[i][1], Len(env_var_uri_prefix))).val,
              kept[i][2]>>]

\* The filter_map of the regex list: (index, regex) of the pairs whose name,
\* without the prefix, parses as a usize and whose value compiles.
regex_items(regex_list, env_var_regex_prefix) ==
    LET kept == SelectSeq(regex_list,
                    LAMBDA p :
                        /\ parse_usize(slice_from(p[1], Len(env_var_regex_prefix))).ok
                        /\ Regex_from_str(p[2]).ok)
    IN  [i \in 1..Len(kept) |->
            <<parse_usize(slice_from(kept[i][1], Len(env_var_regex_prefix))).val,
              Regex_from_str(kept[i][2]).val>>]

\* Iterator::zip(...).collect(): the pairs up to the shorter length.
zip(a, b) ==
    [i \in 1..(IF Len(a) <= Len(b) THEN Len(a) ELSE Len(b)) |-> <<a[i], b[i]>>]

\* Ok(the rule list), or Panicked.
extract_pattern_uris(env, env_var_uri_prefix, env_var_regex_prefix) ==
    LET uri_list == SelectSeq(env, LAMBDA p : starts_with(p[1], env_var_uri_prefix))
        everything_else ==
            SelectSeq(env, LAMBDA p : ~starts_with(p[1], env_var_uri_prefix))
        regex_list ==
            SelectSeq(everything_else,
                      LAMBDA p : starts_with(p[1], env_var_regex_prefix))
        uri_length == Len(uri_list)
        uris == fold_assign([i \in 1..uri_length |-> ""],
                            uri_items(uri_list, env_var_uri_prefix), 1)
        regex_length == Len(regex_list)
        regexes == fold_assign([i \in 1..regex_length |-> Regex_from_str("").val],
                               regex_items(regex_list, env_var_regex_prefix), 1)
    IN  IF ~uris.ok THEN Panicked
        ELSE IF ~regexes.ok THEN Panicked
        ELSE Ok(zip(regexes.val, uris.val))

(***************************************************************************)
(* The resolver on a table built directly with UriMappings::new, as the    *)
(* unit tests of uri_mappings.rs do.                                       *)
(***************************************************************************)
NoCall == [op |-> "none", parameter |-> "", result |-> Err("")]
NoResponse == [status |-> 0, location |-> "", body |-> ""]

\* The requests the server handles at the same time, each on its own task;
\* a task holds its handler's locals: the path, the position of the for loop
\* of match_pattern, and the result once the handler is done.
Callers == {"a", "b"}

IdleTask == [pc |-> "idle", path |-> "", i |-> 0, result |-> Err("")]

NoTasks == [t \in Callers |-> IdleTask]

Parameters == {"i5", "i42", "42", "bad"}

StandardKeys == {"i5", "bad"}

StandardTargets == {"https://example.com/five", "https://example.com/byebye"}

StandardTables == UNION {[K -> StandardTargets] : K \in SUBSET StandardKeys}

RuleCatalog ==
    { <<"^([0-9]+)$", "https://example.com/$1">>,
      <<"^i([0-9]+)$", "https://example.com/$1">>,
      <<"i", "$first $last">>,
      <<"", "">> }

PatternTables == UNION {[1..n -> RuleCatalog] : n \in 0..MaxRules}

\* UriMappings::new
UriMappings_new(std, pat) ==
    /\ standard' = std
    /\ pattern' = pat

InitResolve ==
    /\ env_vars = <<>>
    /\ pc = "serving"
    /\ standard \in StandardTables
    /\ pattern \in PatternTables
    /\ port_number = None
    /\ port = DEFAULT_PORT
    /\ call = NoCall
    /\ response = NoResponse
    /\ tasks = NoTasks

MatchStandard(parameter) ==
    /\ pc = "serving"
    /\ call' = [op |-> "match_standard", parameter |-> parameter,
                result |-> match_standard(standard, parameter)]
    /\ UNCHANGED <<env_vars, pc, standard, pattern, port_number, port, response, tasks>>

MatchPattern(parameter) ==
    /\ pc = "serving"
    /\ call' = [op |-> "match_pattern", parameter |-> parameter,
                result |-> match_pattern(pattern, parameter)]
    /\ UNCHANGED <<env_vars, pc, standard, pattern, port_number, port, response, tasks>>

MatchAnything(parameter) ==
    /\ pc = "serving"
    /\ call' = [op |-> "match_anything", parameter |-> parameter,
                result |-> match_anything(standard, pattern, parameter)]
    /\ UNCHANGED <<env_vars, pc, standard, pattern, port_number, port, response, tasks>>

NextResolve ==
    \E parameter \in Parameters :
        \/ MatchStandard(parameter)
        \/ MatchPattern(parameter)
        \/ MatchAnything(parameter)

SpecResolve == InitResolve /\ [][NextResolve]_vars

(***************************************************************************)
(* extract_standard_uris on an arbitrary iterator of pairs, as the unit    *)
(* test load_standard_env_var calls it, followed by lookups.               *)
(***************************************************************************)
StandardPairs ==
    { <<STANDARD_URI_ENV_NAME \o "test", "https://example.com/">>,
      <<STANDARD_URI_ENV_NAME \o "test", "https://example.com/override">>,
      <<STANDARD_URI_ENV_NAME \o "test", "not a uri">>,
      <<STANDARD_URI_ENV_NAME, "https://example.com/empty">>,
      <<"unused", "https://example.com/unused">>,
      <<"x" \o STANDARD_URI_ENV_NAME \o "test", "https://example.com/x">> }

StandardLookups == {"test", "", "unused"}

InitStandard ==
    /\ env_vars \in UNION {[1..n -> StandardPairs] : n \in 0..MaxStandardVars}
    /\ pc = "start"
    /\ standard = <<>>
    /\ pattern = <<>>
    /\ port_number = None
    /\ port = DEFAULT_PORT
    /\ call = NoCall
    /\ response = NoResponse
    /\ tasks = NoTasks

ExtractStandard ==
    /\ pc = "start"
    /\ pc' = "serving"
    /\ standard' = extract_standard_uris(env_vars, STANDARD_URI_ENV_NAME)
    /\ UNCHANGED <<env_vars, pattern, port_number, port, call, response, tasks>>

LookupStandard ==
    \E parameter \in StandardLookups : MatchStandard(parameter)

NextStandard ==
    \/ ExtractStandard
    \/ LookupStandard

SpecStandard == InitStandard /\ [][NextStandard]_vars

(***************************************************************************)
(* extract_pattern_uris on an arbitrary iterator of pairs, as the unit     *)
(* test load_pattern_env_var calls it.                                     *)
(***************************************************************************)
PatternPairs ==
    { <<PATTERN_REGEX_ENV_NAME \o "0", "^([0-9]+)$">>,
      <<PATTERN_REGEX_ENV_NAME \o "1", "^i([0-9]+)$">>,
      <<PATTERN_URI_ENV_NAME \o "0", "https://example.com/$1">>,
      <<PATTERN_URI_ENV_NAME \o "1", "https://example.com/i/$1">>,
      <<PATTERN_REGEX_ENV_NAME \o "1", "(">>,
      <<PATTERN_REGEX_ENV_NAME \o "x", "i">>,
      <<PATTERN_URI_ENV_NAME \o "x", "https://example.com/x">>,
      <<PATTERN_URI_ENV_NAME \o "2", "https://example.com/2">>,
      <<"unused", "unused">> }

InitPattern ==
    /\ env_vars \in UNION {[1..n -> PatternPairs] : n \in 0..MaxPatternVars}
    /\ pc = "start"
    /\ standard = <<>>
    /\ pattern = <<>>
    /\ port_number = None
    /\ port = DEFAULT_PORT
    /\ call = NoCall
    /\ response = NoResponse
    /\ tasks = NoTasks

\* The call either returns the rule list or panics.
ExtractPattern ==
    /\ pc = "start"
    /\ LET r == extract_pattern_uris(env_vars, PATTERN_URI_ENV_NAME,
                                     PATTERN_REGEX_ENV_NAME)
       IN  /\ pc' = IF r.ok THEN "serving" ELSE "panicked"
           /\ pattern' = r.val
    /\ UNCHANGED <<env_vars, standard, port_number, port, call, response, tasks>>

NextPattern == ExtractPattern

SpecPattern == InitPattern /\ [][NextPattern]_vars

(***************************************************************************)
(* extract_port_number on an arbitrary iterator of pairs, as the unit test *)
(* load_port_env_var calls it, with main's unwrap_or(DEFAULT_PORT).        *)
(***************************************************************************)
PortPairs ==
    { <<"test", "test">>,
      <<PORT_ENV_NAME, "notANumber">>,
      <<PORT_ENV_NAME, "-3000">>,
      <<PORT_ENV_NAME, "8080">>,
      <<PORT_ENV_NAME, "8000">>,
      <<PORT_ENV_NAME, "65536">>,
      <<PORT_ENV_NAME \o "_NUMBER", "9000">> }

InitPort ==
    /\ env_vars \in UNION {[1..n -> PortPairs] : n \in 0..MaxPortVars}
    /\ pc = "start"
    /\ standard = <<>>
    /\ pattern = <<>>
    /\ port_number = None
    /\ port = DEFAULT_PORT
    /\ call = NoCall
    /\ response = NoResponse
    /\ tasks = NoTasks

ExtractPort ==
    /\ pc = "start"
    /\ pc' = "serving"
    /\ port_number' = extract_port_number(env_vars, PORT_ENV_NAME)
    /\ port' = IF extract_port_number(env_vars, PORT_ENV_NAME).some
               THEN extract_port_number(env_vars, PORT_ENV_NAME).val
               ELSE DEFAULT_PORT
    /\ UNCHANGED <<env_vars, standard, pattern, call, response, tasks>>

NextPort == ExtractPort

SpecPort == InitPort /\ [][NextPort]_vars

(***************************************************************************)
(* The program (src/src/main.rs): main loads the table from the process    *)
(* environment, whose variable names are distinct, and serves requests.    *)
(***************************************************************************)
TEMPORARY_REDIRECT == 307
OK == 200

WelcomePage == "welcome_page"
ErrorPage == "error_page"

MainPairs ==
    { <<STANDARD_URI_ENV_NAME \o "test", "https://example.com/">>,
      <<STANDARD_URI_ENV_NAME \o "bad", "not a uri">>,
      <<PATTERN_REGEX_ENV_NAME \o "0", "^i([0-9]+)$">>,
      <<PATTERN_REGEX_ENV_NAME \o "0", "(">>,
      <<PATTERN_URI_ENV_NAME \o "0", "https://example.com/$1">>,
      <<PATTERN_URI_ENV_NAME \o "x", "https://example.com/x">>,
      <<PORT_ENV_NAME, "8080">>,
      <<PORT_ENV_NAME, "notANumber">>,
      <<"unused", "unused">> }

Paths == {"test", "i42", "bad"}

DistinctNames(env) ==
    \A i, j \in 1..Len(env) : i # j => env[i][1] # env[j][1]

Init ==
    /\ env_vars \in UNION {[1..n -> MainPairs] : n \in 0..MaxMainVars}
    /\ DistinctNames(env_vars)
    /\ pc = "start"
    /\ standard = <<>>
    /\ pattern = <<>>
    /\ port_number = None
    /\ port = DEFAULT_PORT
    /\ call = NoCall
    /\ response = NoResponse
    /\ tasks = NoTasks

\* Option::unwrap_or
unwrap_or(opt, default) == IF opt.some THEN opt.val ELSE default

\* main, up to the point where the server listens; a panic of the loader
\* ends the process.
Main ==
    /\ pc = "start"
    /\ LET standard_uris == extract_standard_uris(env_vars, STANDARD_URI_ENV_NAME)
           pattern_uris == extract_pattern_uris(env_vars, PATTERN_URI_ENV_NAME,
                                                PATTERN_REGEX_ENV_NAME)
       IN  IF ~pattern_uris.ok
           THEN /\ pc' = "panicked"
                /\ UNCHANGED <<standard, pattern, port_number, port>>
           ELSE /\ pc' = "serving"
                /\ UriMappings_new(standard_uris, pattern_uris.val)
                /\ port_number' = extract_port_number(env_vars, PORT_ENV_NAME)
                /\ port' = unwrap_or(extract_port_number(env_vars, PORT_ENV_NAME),
                                     DEFAULT_PORT)
    /\ UNCHANGED <<env_vars, call, response, tasks>>

\* GET /
GetRoot ==
    /\ pc = "serving"
    /\ response' = [status |-> OK, location |-> "", body |-> WelcomePage]
    /\ UNCHANGED <<env_vars, pc, standard, pattern, port_number, port, call, tasks>>

\* The handler's answer to the resolver's outcome: Redirect::temporary, or
\* the error page as Html.
redirect_or_error(r) ==
    IF r.ok
    THEN [status |-> TEMPORARY_REDIRECT, location |-> r.val, body |-> ""]
    ELSE [status |-> OK, location |-> "", body |-> ErrorPage]

\* GET /:parameter
GetMatchAndRedirect(path) ==
    /\ pc = "serving"
    /\ call' = [op |-> "match_anything", parameter |-> path,
                result |-> match_anything(standard, pattern, path)]
    /\ response' = redirect_or_error(match_anything(standard, pattern, path))
    /\ UNCHANGED <<env_vars, pc, standard, pattern, port_number, port, tasks>>

Request == \E path \in Paths : GetMatchAndRedirect(path)

Next ==
    \/ Main
    \/ GetRoot
    \/ Request

Spec == Init /\ [][Next]_vars

(***************************************************************************)
(* The server under concurrent requests (src/src/main.rs): the table is    *)
(* shared through an Arc, and each request runs get_match_and_redirect on  *)
(* its own task.  A task's match_anything is split into its steps, the     *)
(* lookup in the map and each iteration of the loop over the rules, and    *)
(* the steps of different tasks interleave.                                *)
(***************************************************************************)
ConcurrentPaths == {"i5", "42", "bad"}

InitConcurrent ==
    /\ env_vars = <<>>
    /\ pc = "serving"
    /\ standard \in StandardTables
    /\ pattern \in UNION {[1..n -> RuleCatalog] : n \in 0..MaxConcurrentRules}
    /\ port_number = None
    /\ port = DEFAULT_PORT
    /\ call = NoCall
    /\ response = NoResponse
    /\ tasks = NoTasks

\* The task once match_anything has called match_standard: done on Ok,
\* otherwise at the first rule of match_pattern.
task_after_standard(task, std) ==
    IF match_standard(std, task.path).ok
    THEN [task EXCEPT !.pc = "done", !.result = Ok(match_standard(std, task.path).val)]
    ELSE [task EXCEPT !.pc = "match_pattern", !.i = 1]

\* The task after one iteration of the for loop of match_pattern: the loop
\* is over, the rule does not match (continue), or the rule decides.
task_after_rule(task, pat) ==
    IF task.i > Len(pat)
    THEN [task EXCEPT !.pc = "done", !.result = Err(NoPatternFound)]
    ELSE IF ~is_match(pat[task.i][1], task.path)
    THEN [task EXCEPT !.i = @ + 1]
    ELSE IF Uri_from_str(regex_replace(pat[task.i][1], task.path, pat[task.i][2])).ok
    THEN [task EXCEPT !.pc = "done",
                      !.result = Ok(Uri_from_str(regex_replace(pat[task.i][1],
                                        task.path, pat[task.i][2])).val)]
    ELSE [task EXCEPT !.pc = "done", !.result = Err(PatternDidNotCreateUri)]

\* Mutant: the position of the loop is shared by the tasks, so a step of one
\* task also moves every other task that is inside the loop.
loop_step_shared_position(all, t, pat) ==
    [u \in DOMAIN all |->
        IF u = t THEN task_after_rule(all[t], pat)
        ELSE IF all[u].pc = "match_pattern" /\ task_after_rule(all[t], pat).pc # "done"
        THEN [all[u] EXCEPT !.i = @ + 1]
        ELSE all[u]]

\* The tasks after task t ran one iteration of its loop: the position is a
\* local of t's call, so no other task changes.
loop_step(all, t, pat) == [all EXCEPT ![t] = task_after_rule(all[t], pat)]

\* The router hands a request for /:parameter to a task.
Receive(t, path) ==
    /\ pc = "serving"
    /\ tasks[t].pc = "idle"
    /\ tasks' = [tasks EXCEPT ![t] = [pc |-> "match_standard", path |-> path,
                                      i |-> 0, result |-> Err("")]]
    /\ UNCHANGED <<env_vars, pc, standard, pattern, port_number, port, call, response>>

StepStandard(t) ==
    /\ tasks[t].pc = "match_standard"
    /\ tasks' = [tasks EXCEPT ![t] = task_after_standard(tasks[t], standard)]
    /\ UNCHANGED <<env_vars, pc, standard, pattern, port_number, port, call, response>>

StepPattern(t) ==
    /\ tasks[t].pc = "match_pattern"
    /\ tasks' = loop_step(tasks, t, pattern)
    /\ UNCHANGED <<env_vars, pc, standard, pattern, port_number, port, call, response>>

\* The handler returns its response to the client and the task ends.
Respond(t) ==
    /\ tasks[t].pc = "done"
    /\ tasks' = [tasks EXCEPT ![t] = IdleTask]
    /\ UNCHANGED <<env_vars, pc, standard, pattern, port_number, port, call, response>>

NextConcurrent ==
    \E t \in Callers :
        \/ \E path \in ConcurrentPaths : Receive(t, path)
        \/ StepStandard(t)
        \/ StepPattern(t)
        \/ Respond(t)

SpecConcurrent == InitConcurrent /\ [][NextConcurrent]_vars

(***************************************************************************)
(* Helpers of the resolver properties.                                     *)
(***************************************************************************)
\* The positions of the rules whose regex matches k.
MatchingRules(pat, k) == {i \in 1..Len(pat) : is_match(pat[i][1], k)}

\* What one rule, taken alone, makes of a key it matches.
RuleOutcome(rule, k) ==
    LET r == Uri_from_str(regex_replace(rule[1], k, rule[2]))
    IN  IF r.ok THEN Ok(r.val) ELSE Err(PatternDidNotCreateUri)

\* The rules of pat whose regex matches k, in order.
OnlyMatching(pat, k) == SelectSeq(pat, LAMBDA rule : is_match(rule[1], k))

\* C1: a key of the standard map resolves, through match_anything, to its
\* standard target, whatever the pattern rules would make of it.
C1_ExactPrecedence ==
    (call.op = "match_anything" /\ call.parameter \in DOMAIN standard)
        => call.result = Ok(standard[call.parameter])

C1_Witness ==
    /\ call.op = "match_anything"
    /\ call.parameter \in DOMAIN standard
    /\ MatchingRules(pattern, call.parameter) # {}
    /\ match_pattern(pattern, call.parameter).ok
    /\ match_pattern(pattern, call.parameter) # call.result
    /\ call.result = Ok(standard[call.parameter])

\* C2: match_pattern answers with what the matching rule of lowest position
\* makes of the key; rules that do not match do not change the answer.
C2_FirstMatchingRuleDecides ==
    (call.op = "match_pattern" /\ MatchingRules(pattern, call.parameter) # {})
        => /\ call.result =
                 RuleOutcome(pattern[Min(MatchingRules(pattern, call.parameter))],
                             call.parameter)
           /\ call.result = match_pattern(OnlyMatching(pattern, call.parameter),
                                          call.parameter)

C2_Witness ==
    /\ call.op = "match_pattern"
    /\ Len(pattern) >= 3
    /\ ~is_match(pattern[1][1], call.parameter)
    /\ is_match(pattern[2][1], call.parameter)
    /\ is_match(pattern[3][1], call.parameter)
    /\ RuleOutcome(pattern[2], call.parameter) # RuleOutcome(pattern[3], call.parameter)
    /\ call.result = RuleOutcome(pattern[2], call.parameter)

\* C3: when the first matching rule's replacement is no URI, match_pattern
\* fails with "Pattern did not create URI" and tries no later rule.
C3_FailFast ==
    LET M == MatchingRules(pattern, call.parameter)
    IN  ( /\ call.op = "match_pattern"
          /\ M # {}
          /\ ~Uri_from_str(regex_replace(pattern[Min(M)][1], call.parameter,
                                         pattern[Min(M)][2])).ok )
            => call.result = Err(PatternDidNotCreateUri)

C3_Witness ==
    LET M == MatchingRules(pattern, call.parameter)
    IN  /\ call.op = "match_pattern"
        /\ M # {}
        /\ ~RuleOutcome(pattern[Min(M)], call.parameter).ok
        /\ \E j \in M : j > Min(M) /\ RuleOutcome(pattern[j], call.parameter).ok
        /\ call.result = Err(PatternDidNotCreateUri)

\* C4: match_anything fails with "No pattern found" exactly when the key is
\* no standard key and no rule's regex matches it; its only other failure is
\* "Pattern did not create URI"; on a key that is no standard key it answers
\* as match_pattern does.
C4_NotFoundExactly ==
    call.op = "match_anything"
        => /\ (call.result = Err(NoPatternFound))
                 <=> ( /\ call.parameter \notin DOMAIN standard
                       /\ MatchingRules(pattern, call.parameter) = {} )
           /\ call.result.ok \/ call.result.val \in {NoPatternFound, PatternDidNotCreateUri}
           /\ call.parameter \notin DOMAIN standard
                 => call.result = match_pattern(pattern, call.parameter)

C4_Witness ==
    /\ call.op = "match_anything"
    /\ standard # <<>>
    /\ pattern # <<>>
    /\ call.parameter \notin DOMAIN standard
    /\ MatchingRules(pattern, call.parameter) = {}
    /\ call.result = Err(NoPatternFound)

(***************************************************************************)
(* Helpers of the loader properties.                                       *)
(***************************************************************************)
\* env without its i-th pair.
RemoveAt(env, i) == SubSeq(env, 1, i - 1) \o SubSeq(env, i + 1, Len(env))

\* The decimal numeral of a small index.
Numeral(i) == <<"0", "1", "2", "3", "4", "5", "6", "7", "8", "9">>[i + 1]

HasNumeralSuffix(name, prefix) ==
    \E i \in 0..9 : name = prefix \o Numeral(i)

\* A pair under a pattern prefix that the loader cannot use: a regex that
\* does not compile, or an index suffix that is no non-negative integer.
MalformedPatternPair(p) ==
    \/ /\ starts_with(p[1], PATTERN_REGEX_ENV_NAME)
       /\ \/ ~Regex_from_str(p[2]).ok
          \/ ~HasNumeralSuffix(p[1], PATTERN_REGEX_ENV_NAME)
    \/ /\ starts_with(p[1], PATTERN_URI_ENV_NAME)
       /\ ~HasNumeralSuffix(p[1], PATTERN_URI_ENV_NAME)

\* A pair that contributes nothing to the configuration: unrecognized, or
\* malformed under a recognized prefix.
UnusablePair(p) ==
    \/ MalformedPatternPair(p)
    \/ starts_with(p[1], STANDARD_URI_ENV_NAME) /\ ~Uri_from_str(p[2]).ok
    \/ p[1] = PORT_ENV_NAME /\ ~parse_u16(p[2]).ok
    \/ /\ ~starts_with(p[1], STANDARD_URI_ENV_NAME)
       /\ ~starts_with(p[1], PATTERN_URI_ENV_NAME)
       /\ ~starts_with(p[1], PATTERN_REGEX_ENV_NAME)
       /\ p[1] # PORT_ENV_NAME

\* C5: extract_pattern_uris never fails hard: whatever the declared indices
\* (sparse, duplicated, larger than the number of pairs), the call returns.
C5_ExtractionNeverPanics == pc # "panicked"

\* C6: a pattern pair with an uncompilable regex or a non-integer index is
\* dropped: the rule list is the one the input without that pair gives.
C6_MalformedPairIsAbsent ==
    pc = "serving"
        => \A i \in 1..Len(env_vars) :
               LET without == extract_pattern_uris(RemoveAt(env_vars, i),
                                  PATTERN_URI_ENV_NAME, PATTERN_REGEX_ENV_NAME)
               IN  (MalformedPatternPair(env_vars[i]) /\ without.ok)
                       => pattern = without.val

\* C7: a configuration with no usable entry loads into the empty table, and
\* every lookup then fails with "No pattern found".
C7_NoUsableEntriesNotFound ==
    (pc = "serving" /\ \A i \in 1..Len(env_vars) : UnusablePair(env_vars[i]))
        => /\ standard = <<>>
           /\ pattern = <<>>
           /\ call.op = "match_anything" => call.result = Err(NoPatternFound)

\* Whether env declares each index 0..N-1 once under each pattern prefix,
\* with regexes that compile, and nothing else under those prefixes.
DenseDeclaration(env, N) ==
    /\ \A i \in 0..(N - 1) :
          /\ Cardinality({j \in 1..Len(env) :
                 env[j][1] = PATTERN_REGEX_ENV_NAME \o Numeral(i)}) = 1
          /\ Cardinality({j \in 1..Len(env) :
                 env[j][1] = PATTERN_URI_ENV_NAME \o Numeral(i)}) = 1
    /\ \A j \in 1..Len(env) :
          /\ starts_with(env[j][1], PATTERN_REGEX_ENV_NAME)
                => /\ \E i \in 0..(N - 1) :
                          env[j][1] = PATTERN_REGEX_ENV_NAME \o Numeral(i)
                   /\ Regex_from_str(env[j][2]).ok
          /\ starts_with(env[j][1], PATTERN_URI_ENV_NAME)
                => \E i \in 0..(N - 1) :
                       env[j][1] = PATTERN_URI_ENV_NAME \o Numeral(i)

\* The value env declares under name.
Declared(env, name) ==
    env[CHOOSE j \in 1..Len(env) : env[j][1] = name][2]

\* C8: when the pairs declare each index 0..N-1 once under both pattern
\* prefixes, the rule list is, in whatever order the pairs arrive, the
\* length-N list whose position i holds the regex and the template declared
\* with index i.
C8_ArrivalOrderIndependent ==
    \A N \in 0..Len(env_vars) :
        (pc # "start" /\ DenseDeclaration(env_vars, N))
            => /\ pc = "serving"
               /\ pattern =
                     [i \in 1..N |->
                         <<Declared(env_vars, PATTERN_REGEX_ENV_NAME \o Numeral(i - 1)),
                           Declared(env_vars, PATTERN_URI_ENV_NAME \o Numeral(i - 1))>>]

C8_Witness ==
    /\ pc = "serving"
    /\ DenseDeclaration(env_vars, 2)
    /\ \E a, b \in 1..Len(env_vars) :
          /\ a < b
          /\ env_vars[a][1] = PATTERN_REGEX_ENV_NAME \o "1"
          /\ env_vars[b][1] = PATTERN_REGEX_ENV_NAME \o "0"
    /\ Len(pattern) = 2
    /\ pattern[1][1] = Declared(env_vars, PATTERN_REGEX_ENV_NAME \o "0")
    /\ pattern[2][1] = Declared(env_vars, PATTERN_REGEX_ENV_NAME \o "1")

\* C9: of the pairs that carry the same standard variable name with valid
\* URIs, the last in iteration order gives the entry: the map holds its
\* value under the stripped key, and match_standard returns it.
C9_LastWriteWins ==
    pc = "serving"
        => \A k \in StandardLookups : \A i, j \in 1..Len(env_vars) :
               ( /\ i < j
                 /\ env_vars[i][1] = STANDARD_URI_ENV_NAME \o k
                 /\ env_vars[j][1] = STANDARD_URI_ENV_NAME \o k
                 /\ Uri_from_str(env_vars[i][2]).ok
                 /\ Uri_from_str(env_vars[j][2]).ok
                 /\ \A l \in (j + 1)..Len(env_vars) : env_vars[l][1] # env_vars[j][1] )
                   => /\ k \in DOMAIN standard
                      /\ standard[k] = env_vars[j][2]
                      /\ (call.op = "match_standard" /\ call.parameter = k)
                            => call.result = Ok(env_vars[j][2])

C9_Witness ==
    /\ pc = "serving"
    /\ \E i, j \in 1..Len(env_vars) :
          /\ i < j
          /\ env_vars[i][1] = STANDARD_URI_ENV_NAME \o "test"
          /\ env_vars[j][1] = STANDARD_URI_ENV_NAME \o "test"
          /\ Uri_from_str(env_vars[i][2]).ok
          /\ Uri_from_str(env_vars[j][2]).ok
          /\ env_vars[i][2] # env_vars[j][2]
          /\ \A l \in (j + 1)..Len(env_vars) : env_vars[l][1] # env_vars[j][1]
          /\ call = [op |-> "match_standard", parameter |-> "test",
                     result |-> Ok(env_vars[j][2])]

\* The strings that could be keys of the extracted map: its keys, the
\* variable names as they are, and the lookups.
CandidateKeys ==
    (DOMAIN standard) \cup StandardLookups
        \cup {env_vars[i][1] : i \in 1..Len(env_vars)}

\* C10: the keys of the extracted map are exactly the names, without the
\* prefix, of the pairs whose name starts with the prefix and whose value
\* parses as a URI; a name without the prefix gives no entry, a value that
\* does not parse gives none, and the prefix alone gives the empty key.
C10_KeysAreStrippedValidPairs ==
    pc = "serving"
        => \A k \in CandidateKeys :
               k \in DOMAIN standard
                   <=> \E i \in 1..Len(env_vars) :
                           /\ env_vars[i][1] = STANDARD_URI_ENV_NAME \o k
                           /\ Uri_from_str(env_vars[i][2]).ok

C10_Witness ==
    /\ pc = "serving"
    /\ \E i \in 1..Len(env_vars) : env_vars[i][1] = "unused"
    /\ \E i \in 1..Len(env_vars) :
          /\ env_vars[i][1] = STANDARD_URI_ENV_NAME \o "test"
          /\ ~Uri_from_str(env_vars[i][2]).ok
    /\ \E i \in 1..Len(env_vars) : env_vars[i][1] = STANDARD_URI_ENV_NAME
    /\ DOMAIN standard = {""}

(***************************************************************************)
(* Concurrent resolution.                                                  *)
(***************************************************************************)
\* C11: no step of a resolver call changes the standard map or the pattern
\* list, and whatever the interleaving of the callers' steps, a call that is
\* done holds the outcome match_anything gives for its key when run alone
\* on the table.
C11_ConcurrentCallsAsAlone ==
    [][ /\ standard' = standard
        /\ pattern' = pattern
        /\ \A t \in Callers :
               tasks'[t].pc = "done"
                   => tasks'[t].result = match_anything(standard, pattern, tasks'[t].path)
      ]_vars

C11_Witness ==
    /\ tasks["a"].pc = "done"
    /\ tasks["b"].pc = "match_pattern"
    /\ tasks["b"].i = 2
    /\ tasks["a"].path # tasks["b"].path
    /\ tasks["a"].result = match_anything(standard, pattern, tasks["a"].path)
    /\ tasks["a"].result.ok

(***************************************************************************)
(* The port.                                                               *)
(***************************************************************************)
\* The positions of the pairs named exactly as the port variable whose value
\* is an integer of 16 bits.
PortCandidates(env) ==
    {i \in 1..Len(env) : env[i][1] = PORT_ENV_NAME /\ parse_u16(env[i][2]).ok}

\* C12: the port is the value of the first pair, in iteration order, whose
\* name is exactly the port variable and whose value parses as an integer in
\* 0..65535; malformed values before it are skipped and values after it are
\* ignored; without such a pair the result is absent and the port is 3000.
C12_FirstParseablePort ==
    pc = "serving"
        => IF PortCandidates(env_vars) = {}
           THEN port_number = None /\ port = DEFAULT_PORT
           ELSE /\ port_number.some
                /\ port_number.val =
                       parse_u16(env_vars[Min(PortCandidates(env_vars))][2]).val
                /\ port = port_number.val

C12_Witness ==
    /\ pc = "serving"
    /\ env_vars = << <<PORT_ENV_NAME \o "_NUMBER", "9000">>,
                     <<PORT_ENV_NAME, "notANumber">>,
                     <<PORT_ENV_NAME, "8080">>,
                     <<PORT_ENV_NAME, "8000">> >>
    /\ port_number = Some(8080)
    /\ port = 8080

(***************************************************************************)
(* The handler's response.                                                 *)
(***************************************************************************)
\* C13: the handler of GET /:parameter answers a resolved key with a
\* temporary redirect to the URI, and a failed lookup ("No pattern found" or
\* "Pattern did not create URI") with the error page under a 4xx status.
C13_FailureIsNotFoundClass ==
    (call.op = "match_anything" /\ response.body # WelcomePage)
        => IF call.result.ok
           THEN /\ response.status = TEMPORARY_REDIRECT
                /\ response.location = call.result.val
           ELSE /\ response.body = ErrorPage
                /\ response.status \in 400..499

(***************************************************************************)
(* The slots of extract_pattern_uris.                                      *)
(***************************************************************************)
\* The number of pairs of env whose name starts with prefix.
PrefixCount(env, prefix) ==
    Cardinality({i \in 1..Len(env) : starts_with(env[i][1], prefix)})

\* Whether the pair p is under prefix with an index that parses.
IndexParses(p, prefix) ==
    starts_with(p[1], prefix) /\ parse_usize(slice_from(p[1], Len(prefix))).ok

\* Whether the index p declares under prefix is a slot of a list of length n.
IndexFits(p, prefix, n) == parse_usize(slice_from(p[1], Len(prefix))).val < n

ShorterCount(env) ==
    IF PrefixCount(env, PATTERN_REGEX_ENV_NAME) <= PrefixCount(env, PATTERN_URI_ENV_NAME)
    THEN PrefixCount(env, PATTERN_REGEX_ENV_NAME)
    ELSE PrefixCount(env, PATTERN_URI_ENV_NAME)

\* C14 as stated: the lists have as many slots as there are pairs with the
\* prefix, and the call completes exactly when every index that parses under
\* a prefix is smaller than the number of pairs with that prefix.
C14_CompletesIffParsedIndicesFit ==
    pc # "start"
        => /\ pc = "serving" => Len(pattern) = ShorterCount(env_vars)
           /\ pc = "serving"
                 <=> \A i \in 1..Len(env_vars) :
                        /\ IndexParses(env_vars[i], PATTERN_URI_ENV_NAME)
                              => IndexFits(env_vars[i], PATTERN_URI_ENV_NAME,
                                     PrefixCount(env_vars, PATTERN_URI_ENV_NAME))
                        /\ IndexParses(env_vars[i], PATTERN_REGEX_ENV_NAME)
                              => IndexFits(env_vars[i], PATTERN_REGEX_ENV_NAME,
                                     PrefixCount(env_vars, PATTERN_REGEX_ENV_NAME))

\* C14, amended: the lists have as many slots as there are pairs with the
\* prefix, and the call completes exactly when every index that is written,
\* that of a uri pair whose index parses and that of a regex pair whose
\* index parses and whose value compiles, is smaller than the number of
\* pairs with its prefix.
C14_CompletesIffWrittenIndicesFit ==
    pc # "start"
        => /\ pc = "serving" => Len(pattern) = ShorterCount(env_vars)
           /\ pc = "serving"
                 <=> \A i \in 1..Len(env_vars) :
                        /\ IndexParses(env_vars[i], PATTERN_URI_ENV_NAME)
                              => IndexFits(env_vars[i], PATTERN_URI_ENV_NAME,
                                     PrefixCount(env_vars, PATTERN_URI_ENV_NAME))
                        /\ ( /\ IndexParses(env_vars[i], PATTERN_REGEX_ENV_NAME)
                             /\ Regex_from_str(env_vars[i][2]).ok )
                              => IndexFits(env_vars[i], PATTERN_REGEX_ENV_NAME,
                                     PrefixCount(env_vars, PATTERN_REGEX_ENV_NAME))

C14_Witness ==
    /\ pc = "panicked"
    /\ PrefixCount(env_vars, PATTERN_URI_ENV_NAME) = 2
    /\ \E i \in 1..Len(env_vars) :
          /\ IndexParses(env_vars[i], PATTERN_URI_ENV_NAME)
          /\ ~IndexFits(env_vars[i], PATTERN_URI_ENV_NAME, 2)
    /\ \A i \in 1..Len(env_vars) :
          IndexParses(env_vars[i], PATTERN_REGEX_ENV_NAME)
              => IndexFits(env_vars[i], PATTERN_REGEX_ENV_NAME,
                           PrefixCount(env_vars, PATTERN_REGEX_ENV_NAME))

(***************************************************************************)
(* Unparseable values in extract_standard_uris.                            *)
(***************************************************************************)
Max(S) == CHOOSE m \in S : \A n \in S : n <= m

\* The positions of the pairs that declare lookup key k with a value that
\* parses as a URI.
ValidDeclarations(env, k) ==
    {i \in 1..Len(env) :
        env[i][1] = STANDARD_URI_ENV_NAME \o k /\ Uri_from_str(env[i][2]).ok}

\* C15: a pair whose value does not parse as a URI leaves the map as it is,
\* so the map is the one the input without that pair gives, and the value of
\* a key is that of the last pair for the key whose value parses, also when
\* a later pair for the key has an unparseable value.
C15_UnparseableValueKeepsEntry ==
    pc = "serving"
        => /\ \A k \in CandidateKeys :
                  ValidDeclarations(env_vars, k) # {}
                      => /\ k \in DOMAIN standard
                         /\ standard[k] = env_vars[Max(ValidDeclarations(env_vars, k))][2]
           /\ \A i \in 1..Len(env_vars) :
                  ( /\ starts_with(env_vars[i][1], STANDARD_URI_ENV_NAME)
                    /\ ~Uri_from_str(env_vars[i][2]).ok )
                      => standard = extract_standard_uris(RemoveAt(env_vars, i),
                                                          STANDARD_URI_ENV_NAME)

C15_Witness ==
    /\ pc = "serving"
    /\ \E i, j \in 1..Len(env_vars) :
          /\ i < j
          /\ env_vars[i][1] = STANDARD_URI_ENV_NAME \o "test"
          /\ env_vars[j][1] = STANDARD_URI_ENV_NAME \o "test"
          /\ Uri_from_str(env_vars[i][2]).ok
          /\ ~Uri_from_str(env_vars[j][2]).ok
          /\ \A l \in (i + 1)..Len(env_vars) : ~Uri_from_str(env_vars[l][2]).ok
          /\ "test" \in DOMAIN standard
          /\ standard["test"] = env_vars[i][2]

====
